---- MODULE Spec2Model ----
(***************************************************************************)
(* Model of src/autostop/autostop.py: one run of main(), the idle gates    *)
(* it evaluates in order and the stop request it may issue.                *)
(***************************************************************************)
EXTENDS Integers, Sequences, FiniteSets, TLC

\* ---------------------------------------------------------------- bounds
MaxIdleTime == 2      \* largest idle threshold (--time) explored
MaxClock == 3         \* largest datetime.utcnow() value explored
MaxStamp == 1         \* largest last_activity timestamp in a session listing
MaxCpu == 2           \* largest CPU reading and CPU threshold explored
MaxSamples == 2       \* cpu_check_duration ranges up to MaxSamples intervals
MaxSessions == 2      \* longest /api/sessions list
MaxKernels == 2       \* longest /api/kernels list
MaxConn == 1          \* largest per-kernel connection count

\* ------------------------------------------------------ program constants
interval == 5         \* is_cpu_idle: seconds between two CPU samples

NoName == "<None>"    \* Python None where a name is expected

VARIABLES
    pc,                      \* position of the run in main()
    args,                    \* parsed command line arguments
    exit_code,               \* process exit status ({} while running)
    exit_line,               \* source line the run ended at (0 while running)
    now,                     \* is_within_active_hours: now, while it is being probed
    active_hours_result,     \* value returned by is_within_active_hours
    validate_log,            \* results of the validate_aws_profile calls
    cpu_usage_samples,       \* is_cpu_idle: cpu_usage_samples
    cpu_samples_taken,       \* number of psutil.cpu_percent calls
    sessions_queries,        \* number of GET /api/sessions performed
    kernels_queries,         \* number of GET /api/kernels performed
    response,                \* get_last_activity_time / are_connections_active: response
    last_activity,           \* main: last_activity ({} is None)
    idle_time,               \* main: idle_time ({} before it is computed)
    name_sources,            \* what the identity sources hold when consulted
    notebook_instance_name,  \* main: notebook_instance_name
    stop_requests            \* client.stop_notebook_instance calls, in order

vars == <<pc, args, exit_code, exit_line, now, active_hours_result,
          validate_log, cpu_usage_samples, cpu_samples_taken, sessions_queries,
          kernels_queries, response, last_activity, idle_time, name_sources,
          notebook_instance_name, stop_requests>>

\* ------------------------------------------------------------- helpers
Max(a, b) == IF a >= b THEN a ELSE b

RECURSIVE SumSeq(_)
SumSeq(s) == IF s = <<>> THEN 0 ELSE Head(s) + SumSeq(Tail(s))

SeqsUpTo(S, n) == UNION {[1..k -> S] : k \in 0..n}

\* str(now.isoweekday())
DayStr(d) == <<"1", "2", "3", "4", "5", "6", "7">>[d]

\* ------------------------------------------------------- parse_arguments
DefaultActiveDays == {"1", "2", "3", "4", "5"}

\* <<start, start_min, end, end_min>>: the default, a day window with
\* minutes, and a window whose start is after its end
Windows == {<<0, 0, 0, 0>>, <<9, 30, 17, 0>>, <<17, 0, 9, 0>>}

\* whole numbers of sampling intervals, and one duration in between
Durations == {n * interval : n \in 0..MaxSamples} \cup {interval + 2}

ArgsSet ==
    {a \in [name               : {NoName, "explicit-name"},
            time               : 1..MaxIdleTime,
            ignore_connections : BOOLEAN,
            start              : {w[1] : w \in Windows},
            start_min          : {w[2] : w \in Windows},
            end                : {w[3] : w \in Windows},
            end_min            : {w[4] : w \in Windows},
            active_days        : {DefaultActiveDays, {"6", "7"}},
            cpu_threshold      : {{}} \cup {{t} : t \in 0..MaxCpu},
            cpu_check_duration : Durations] :
        <<a.start, a.start_min, a.end, a.end_min>> \in Windows}

\* ------------------------------------------------ is_within_active_hours
\* no clock reading: is_within_active_hours is not being probed on its own
NoClock == [day |-> 0, hour |-> 0, minute |-> 0]

ClockDays == 1..7
ClockHours == {0, 8, 9, 12, 16, 17, 23}
ClockMinutes == {0, 29, 30, 59}

\* an is_within_active_hours that does not look at the day of the week
is_within_active_hours_any_day(a, day, hour, minute) ==
    LET current_time_minutes == hour * 60 + minute
        start_time_minutes == a.start * 60 + a.start_min
        end_time_minutes == a.end * 60 + a.end_min
    IN  start_time_minutes <= current_time_minutes
        /\ current_time_minutes < end_time_minutes

\* an is_within_active_hours whose window includes its end minute
is_within_active_hours_inclusive(a, day, hour, minute) ==
    LET current_day == DayStr(day)
        current_time_minutes == hour * 60 + minute
        start_time_minutes == a.start * 60 + a.start_min
        end_time_minutes == a.end * 60 + a.end_min
    IN  IF current_day \notin a.active_days
        THEN FALSE
        ELSE start_time_minutes <= current_time_minutes
             /\ current_time_minutes <= end_time_minutes

is_within_active_hours(a, day, hour, minute) ==
    LET current_day == DayStr(day)
        current_time_minutes == hour * 60 + minute
        start_time_minutes == a.start * 60 + a.start_min
        end_time_minutes == a.end * 60 + a.end_min
    IN  IF current_day \notin a.active_days
        THEN FALSE
        ELSE start_time_minutes <= current_time_minutes
             /\ current_time_minutes < end_time_minutes

\* ----------------------------------------------------------- is_cpu_idle
\* a total_samples that rounds the number of intervals up
total_samples_ceil(check_duration) ==
    Max(1, (check_duration + interval - 1) \div interval)

\* total_samples = max(1, check_duration // interval)
total_samples(check_duration) == Max(1, check_duration \div interval)

\* an is_cpu_idle that takes an average equal to the threshold for idle
is_cpu_idle_inclusive(samples, threshold) ==
    SumSeq(samples) <= threshold * Len(samples)

\* average_cpu < threshold, with average_cpu = sum(samples) / len(samples)
is_cpu_idle(samples, threshold) == SumSeq(samples) < threshold * Len(samples)

\* ------------------------------------------------ local session API
\* An HTTP exchange: reach = FALSE is a refused connection or a timeout,
\* kind tells what json.loads makes of the body.
Responses(items, n) ==
    {r \in [reach  : BOOLEAN,
            status : {0, 200, 500},
            kind   : {"invalid", "object", "list"},
            body   : SeqsUpTo(items, n)] :
        /\ r.reach = (r.status # 0)
        /\ ~r.reach => r.kind = "invalid"
        /\ r.kind # "list" => r.body = <<>>}

NoResponse == [reach |-> FALSE, status |-> 0, kind |-> "invalid", body |-> <<>>]

Timestamps ==
    [t : 0..MaxStamp, wellformed : {TRUE}] \cup [t : {0}, wellformed : {FALSE}]

SessionObjects ==
    {[path |-> "nb"], [kernel |-> [id |-> "k"]]}
        \cup {[kernel |-> [last_activity |-> ts]] : ts \in Timestamps}

KernelObjects ==
    {[id |-> "k"]} \cup {[connections |-> c] : c \in 0..MaxConn}

HasLastActivity(notebook) ==
    "kernel" \in DOMAIN notebook /\ "last_activity" \in DOMAIN notebook.kernel

\* the for loop of get_last_activity_time; strptime raises on a timestamp
\* that does not match the format
RECURSIVE ScanSessions(_, _)
ScanSessions(data, last) ==
    IF Len(data) = 0
    THEN [raised |-> FALSE, last_activity |-> last]
    ELSE LET notebook == Head(data) IN
         IF HasLastActivity(notebook)
         THEN IF ~notebook.kernel.last_activity.wellformed
              THEN [raised |-> TRUE, last_activity |-> last]
              ELSE LET activity == notebook.kernel.last_activity.t IN
                   IF last = {} \/ \A l \in last : activity > l
                   THEN ScanSessions(Tail(data), {activity})
                   ELSE ScanSessions(Tail(data), last)
         ELSE ScanSessions(Tail(data), last)

\* exit = TRUE is the except branch (sys.exit(1)); a JSON object body is
\* iterated by its keys, none of which holds a kernel
get_last_activity_time(resp) ==
    IF ~resp.reach \/ resp.status >= 400 \/ resp.kind = "invalid"
    THEN [exit |-> TRUE, value |-> {}]
    ELSE IF resp.kind = "object"
    THEN [exit |-> FALSE, value |-> {}]
    ELSE LET r == ScanSessions(resp.body, {}) IN
         [exit |-> r.raised, value |-> IF r.raised THEN {} ELSE r.last_activity]

Connections(kernel) ==
    IF "connections" \in DOMAIN kernel THEN kernel.connections ELSE 0

\* exit = TRUE is the except branch (sys.exit(1)); the status code is not
\* looked at; a JSON object body is iterated by its keys, and str has no get
are_connections_active(resp) ==
    IF ~resp.reach \/ resp.kind = "invalid"
    THEN [exit |-> TRUE, value |-> FALSE]
    ELSE IF resp.kind = "object"
    THEN [exit |-> TRUE, value |-> FALSE]
    ELSE [exit |-> FALSE,
          value |-> \E i \in 1..Len(resp.body) :
                        Connections(resp.body[i]) > 0]

\* ------------------------------------------------------ get_notebook_name
NameSources ==
    [file     : {"absent", "unreadable", "no_resource_name", "ok"},
     tag      : {"timeout", "non200", "ok"},
     hostname : {"ok", "error"}]

get_notebook_name(src) ==
    IF src.file = "ok" THEN [exit |-> FALSE, name |-> "metadata-name"]
    ELSE IF src.file \in {"absent", "no_resource_name"}
    THEN [exit |-> FALSE, name |-> NoName]
    ELSE IF src.tag = "ok" THEN [exit |-> FALSE, name |-> "tag-name"]
    ELSE IF src.hostname = "ok" THEN [exit |-> FALSE, name |-> "host-name"]
    ELSE [exit |-> TRUE, name |-> NoName]

\* ------------------------------------------------------ validate_aws_profile
ValidateOutcomes ==
    {"ok", "no_credentials_file", "no_credentials", "incomplete",
     "sts_client_error", "profile_not_found", "exception"}

validate_aws_profile(outcome) == outcome = "ok"

\* ------------------------------------------------------------------ main
Init ==
    /\ pc = "validate"
    /\ args \in ArgsSet
    /\ exit_code = {}
    /\ exit_line = 0
    /\ now = NoClock
    /\ active_hours_result = {}
    /\ validate_log = <<>>
    /\ cpu_usage_samples = <<>>
    /\ cpu_samples_taken = 0
    /\ sessions_queries = 0
    /\ kernels_queries = 0
    /\ response = NoResponse
    /\ last_activity = {}
    /\ idle_time = {}
    /\ name_sources = {}
    /\ notebook_instance_name = "<unbound>"
    /\ stop_requests = <<>>

\* sys.exit(code) at the given source line, or the end of main
Exit(line, code) ==
    /\ pc' = "done"
    /\ exit_line' = line
    /\ exit_code' = {code}

Goto(label) ==
    /\ pc' = label
    /\ UNCHANGED <<exit_line, exit_code>>

\* main: validate the AWS profile early
MainValidate ==
    /\ pc = "validate"
    /\ \E outcome \in ValidateOutcomes :
          LET ok == validate_aws_profile(outcome) IN
          /\ validate_log' = Append(validate_log, ok)
          /\ IF ok THEN Goto("find_roles") ELSE Exit(429, 1)
    /\ UNCHANGED <<now, args, active_hours_result, cpu_usage_samples,
                   cpu_samples_taken, sessions_queries, kernels_queries,
                   response, last_activity, idle_time, name_sources,
                   notebook_instance_name, stop_requests>>

\* main: find and display the SageMaker roles (logging only)
FindRoles ==
    /\ pc = "find_roles"
    /\ Goto("generate_name")
    /\ UNCHANGED <<now, args, active_hours_result, validate_log, cpu_usage_samples,
                   cpu_samples_taken, sessions_queries, kernels_queries,
                   response, last_activity, idle_time, name_sources,
                   notebook_instance_name, stop_requests>>

\* main: generate an instance name if none was given
GenerateName ==
    /\ pc = "generate_name"
    /\ args' = IF args.name = NoName
               THEN [args EXCEPT !.name = "generated-name"]
               ELSE args
    /\ Goto("active_hours")
    /\ UNCHANGED <<now, active_hours_result, validate_log, cpu_usage_samples,
                   cpu_samples_taken, sessions_queries, kernels_queries,
                   response, last_activity, idle_time, name_sources,
                   notebook_instance_name, stop_requests>>

\* a main that goes on to the idle checks inside the active window
AfterActiveHoursNoSkip(within) == Goto("cpu_gate")

\* main: if is_within_active_hours(args): sys.exit(0), else proceed
AfterActiveHours(within) == IF within THEN Exit(448, 0) ELSE Goto("cpu_gate")

\* main: the active hours gate, at a given reading of the clock
ActiveHoursAt(day, hour, minute) ==
    /\ pc = "active_hours"
    /\ LET within == is_within_active_hours(args, day, hour, minute) IN
       /\ active_hours_result' = {within}
       /\ AfterActiveHours(within)
    /\ UNCHANGED <<now, args, validate_log, cpu_usage_samples, cpu_samples_taken,
                   sessions_queries, kernels_queries, response, last_activity,
                   idle_time, name_sources, notebook_instance_name,
                   stop_requests>>

\* main: the active hours gate
ActiveHours ==
    \E day \in ClockDays, hour \in ClockHours, minute \in ClockMinutes :
        ActiveHoursAt(day, hour, minute)

\* main: the CPU gate is entered only when a threshold is set
CpuGate ==
    /\ pc = "cpu_gate"
    /\ IF args.cpu_threshold # {} THEN Goto("cpu_sample") ELSE Goto("sessions_get")
    /\ UNCHANGED <<now, args, active_hours_result, validate_log, cpu_usage_samples,
                   cpu_samples_taken, sessions_queries, kernels_queries,
                   response, last_activity, idle_time, name_sources,
                   notebook_instance_name, stop_requests>>

\* is_cpu_idle: one iteration of the sampling loop
CpuSample ==
    /\ pc = "cpu_sample"
    /\ Len(cpu_usage_samples) < total_samples(args.cpu_check_duration)
    /\ \E usage \in 0..MaxCpu :
          cpu_usage_samples' = Append(cpu_usage_samples, usage)
    /\ cpu_samples_taken' = cpu_samples_taken + 1
    /\ Goto("cpu_sample")
    /\ UNCHANGED <<now, args, active_hours_result, validate_log, sessions_queries,
                   kernels_queries, response, last_activity, idle_time,
                   name_sources, notebook_instance_name, stop_requests>>

\* a main that samples the CPU again, instead of ending, when it is busy
CpuAverageRetrying ==
    /\ pc = "cpu_sample"
    /\ Len(cpu_usage_samples) = total_samples(args.cpu_check_duration)
    /\ IF \E threshold \in args.cpu_threshold :
             is_cpu_idle(cpu_usage_samples, threshold)
       THEN Goto("sessions_get")
       ELSE Goto("cpu_gate")
    /\ cpu_usage_samples' = <<>>
    /\ UNCHANGED <<now, args, active_hours_result, validate_log, cpu_samples_taken,
                   sessions_queries, kernels_queries, response, last_activity,
                   idle_time, name_sources, notebook_instance_name,
                   stop_requests>>

\* is_cpu_idle: the loop is over, compare the average; main acts on the result
CpuAverage ==
    /\ pc = "cpu_sample"
    /\ Len(cpu_usage_samples) = total_samples(args.cpu_check_duration)
    /\ IF \E threshold \in args.cpu_threshold :
             is_cpu_idle(cpu_usage_samples, threshold)
       THEN Goto("sessions_get")
       ELSE Exit(461, 0)
    /\ cpu_usage_samples' = <<>>
    /\ UNCHANGED <<now, args, active_hours_result, validate_log, cpu_samples_taken,
                   sessions_queries, kernels_queries, response, last_activity,
                   idle_time, name_sources, notebook_instance_name,
                   stop_requests>>

\* get_last_activity_time: requests.get on /api/sessions
SessionsGet ==
    /\ pc = "sessions_get"
    /\ response' \in Responses(SessionObjects, MaxSessions)
    /\ sessions_queries' = sessions_queries + 1
    /\ Goto("sessions_scan")
    /\ UNCHANGED <<now, args, active_hours_result, validate_log, cpu_usage_samples,
                   cpu_samples_taken, kernels_queries, last_activity,
                   idle_time, name_sources, notebook_instance_name,
                   stop_requests>>

\* get_last_activity_time: the rest of the try block, and its return to main
SessionsScan ==
    /\ pc = "sessions_scan"
    /\ LET r == get_last_activity_time(response) IN
       IF r.exit
       THEN Exit(343, 1) /\ UNCHANGED last_activity
       ELSE Goto("idle_time") /\ last_activity' = r.value
    /\ response' = NoResponse
    /\ UNCHANGED <<now, args, active_hours_result, validate_log, cpu_usage_samples,
                   cpu_samples_taken, sessions_queries, kernels_queries,
                   idle_time, name_sources, notebook_instance_name,
                   stop_requests>>

\* a main that takes idle_time = args.time when there is no activity
ComputeIdleTimeAtThreshold ==
    /\ pc = "idle_time"
    /\ IF last_activity = {}
       THEN idle_time' = {args.time}
       ELSE \E utcnow \in 0..MaxClock :
               idle_time' = {utcnow - l : l \in last_activity}
    /\ Goto("idle_check")
    /\ UNCHANGED <<now, args, active_hours_result, validate_log, cpu_usage_samples,
                   cpu_samples_taken, sessions_queries, kernels_queries,
                   response, last_activity, name_sources,
                   notebook_instance_name, stop_requests>>

\* main: idle_time from last_activity and datetime.utcnow()
ComputeIdleTime ==
    /\ pc = "idle_time"
    /\ IF last_activity = {}
       THEN idle_time' = {args.time + 1}
       ELSE \E utcnow \in 0..MaxClock :
               idle_time' = {utcnow - l : l \in last_activity}
    /\ Goto("idle_check")
    /\ UNCHANGED <<now, args, active_hours_result, validate_log, cpu_usage_samples,
                   cpu_samples_taken, sessions_queries, kernels_queries,
                   response, last_activity, name_sources,
                   notebook_instance_name, stop_requests>>

\* a comparison that also takes idle_time == args.time for idle
exceeds_or_equals(t, threshold) == t >= threshold

\* main: idle_time > args.time
exceeds(t, threshold) == t > threshold

\* main: if idle_time > args.time
IdleCheck ==
    /\ pc = "idle_check"
    /\ IF \E t \in idle_time : exceeds(t, args.time)
       THEN Goto("connections")
       ELSE Exit(484, 0)
    /\ UNCHANGED <<now, args, active_hours_result, validate_log, cpu_usage_samples,
                   cpu_samples_taken, sessions_queries, kernels_queries,
                   response, last_activity, idle_time, name_sources,
                   notebook_instance_name, stop_requests>>

\* a main that looks at the connections whatever --ignore-connections says
ConnectionGateAlwaysQuerying ==
    /\ pc = "connections"
    /\ Goto("kernels_get")
    /\ UNCHANGED <<now, args, active_hours_result, validate_log, cpu_usage_samples,
                   cpu_samples_taken, sessions_queries, kernels_queries,
                   response, last_activity, idle_time, name_sources,
                   notebook_instance_name, stop_requests>>

\* main: args.ignore_connections or ... (short circuit)
ConnectionGate ==
    /\ pc = "connections"
    /\ IF args.ignore_connections THEN Goto("get_name") ELSE Goto("kernels_get")
    /\ UNCHANGED <<now, args, active_hours_result, validate_log, cpu_usage_samples,
                   cpu_samples_taken, sessions_queries, kernels_queries,
                   response, last_activity, idle_time, name_sources,
                   notebook_instance_name, stop_requests>>

\* are_connections_active: requests.get on /api/kernels
KernelsGet ==
    /\ pc = "kernels_get"
    /\ response' \in Responses(KernelObjects, MaxKernels)
    /\ kernels_queries' = kernels_queries + 1
    /\ Goto("kernels_scan")
    /\ UNCHANGED <<now, args, active_hours_result, validate_log, cpu_usage_samples,
                   cpu_samples_taken, sessions_queries, last_activity,
                   idle_time, name_sources, notebook_instance_name,
                   stop_requests>>

\* are_connections_active: the rest of the try block, and main acting on it
KernelsScan ==
    /\ pc = "kernels_scan"
    /\ LET r == are_connections_active(response) IN
       IF r.exit THEN Exit(360, 1)
       ELSE IF r.value THEN Exit(482, 0)
       ELSE Goto("get_name")
    /\ response' = NoResponse
    /\ UNCHANGED <<now, args, active_hours_result, validate_log, cpu_usage_samples,
                   cpu_samples_taken, sessions_queries, kernels_queries,
                   last_activity, idle_time, name_sources,
                   notebook_instance_name, stop_requests>>

\* a main that evaluates idleness a second time before it resolves the name
GetNotebookNameAfterRecheck ==
    /\ pc = "get_name"
    /\ IF sessions_queries < 2
       THEN /\ Goto("sessions_get")
            /\ UNCHANGED <<name_sources, notebook_instance_name>>
       ELSE \E src \in NameSources :
               LET r == get_notebook_name(src) IN
               /\ name_sources' = {src}
               /\ IF r.exit
                  THEN Exit(309, 1) /\ UNCHANGED notebook_instance_name
                  ELSE Goto("stop_validate") /\ notebook_instance_name' = r.name
    /\ UNCHANGED <<now, args, active_hours_result, validate_log, cpu_usage_samples,
                   cpu_samples_taken, sessions_queries, kernels_queries,
                   response, last_activity, idle_time, stop_requests>>

\* main: notebook_instance_name = get_notebook_name()
GetNotebookName ==
    /\ pc = "get_name"
    /\ \E src \in NameSources :
          LET r == get_notebook_name(src) IN
          /\ name_sources' = {src}
          /\ IF r.exit
             THEN Exit(309, 1) /\ UNCHANGED notebook_instance_name
             ELSE Goto("stop_validate") /\ notebook_instance_name' = r.name
    /\ UNCHANGED <<now, args, active_hours_result, validate_log, cpu_usage_samples,
                   cpu_samples_taken, sessions_queries, kernels_queries,
                   response, last_activity, idle_time, stop_requests>>

\* a stop_notebook_instance that goes on whatever the validation returned
StopAfterValidateUnchecked(ok) == Goto("stop_call")

\* stop_notebook_instance: if not validate_aws_profile(profile): sys.exit(1)
StopAfterValidate(ok) == IF ok THEN Goto("stop_call") ELSE Exit(383, 1)

\* stop_notebook_instance: validate the profile again
StopValidate ==
    /\ pc = "stop_validate"
    /\ \E outcome \in ValidateOutcomes :
          LET ok == validate_aws_profile(outcome) IN
          /\ validate_log' = Append(validate_log, ok)
          /\ StopAfterValidate(ok)
    /\ UNCHANGED <<now, args, active_hours_result, cpu_usage_samples,
                   cpu_samples_taken, sessions_queries, kernels_queries,
                   response, last_activity, idle_time, name_sources,
                   notebook_instance_name, stop_requests>>

\* what the try block of stop_notebook_instance can meet: "session_error" is
\* raised by boto3.Session or session.client, before the request is made
StopOutcomes == {"ok", "client_error", "exception", "session_error"}

\* a stop_notebook_instance that tries again after a ClientError
AfterStopRetrying(outcome) ==
    IF outcome = "ok" THEN Exit(480, 0)
    ELSE IF outcome = "client_error" THEN Goto("stop_call")
    ELSE Exit(395, 1)

\* stop_notebook_instance: the except clauses, or the return to the end of main
AfterStop(outcome) ==
    IF outcome = "ok" THEN Exit(480, 0)
    ELSE IF outcome = "client_error" THEN Exit(392, 1)
    ELSE Exit(395, 1)

\* stop_notebook_instance: the try block, then back to the end of main
StopCall ==
    /\ pc = "stop_call"
    /\ \E outcome \in StopOutcomes :
          /\ stop_requests' =
                IF outcome = "session_error"
                THEN stop_requests
                ELSE Append(stop_requests,
                            [name |-> notebook_instance_name, outcome |-> outcome])
          /\ AfterStop(outcome)
    /\ UNCHANGED <<now, args, active_hours_result, validate_log, cpu_usage_samples,
                   cpu_samples_taken, sessions_queries, kernels_queries,
                   response, last_activity, idle_time, name_sources,
                   notebook_instance_name>>

Next ==
    \/ MainValidate
    \/ FindRoles
    \/ GenerateName
    \/ ActiveHours
    \/ CpuGate
    \/ CpuSample
    \/ CpuAverage
    \/ SessionsGet
    \/ SessionsScan
    \/ ComputeIdleTime
    \/ IdleCheck
    \/ ConnectionGate
    \/ KernelsGet
    \/ KernelsScan
    \/ GetNotebookName
    \/ StopValidate
    \/ StopCall

Spec == Init /\ [][Next]_vars

\* the branch of main a run took, under the names of the idle verdicts
Verdict ==
    IF exit_line = 448 THEN "SKIP_ACTIVE_WINDOW"
    ELSE IF exit_line = 461 THEN "NOT_IDLE_CPU"
    ELSE IF exit_line = 484 THEN "NOT_IDLE_ACTIVITY"
    ELSE IF exit_line = 482 THEN "NOT_IDLE_CONNECTIONS"
    ELSE IF \/ pc \in {"get_name", "stop_validate", "stop_call"}
            \/ exit_line \in {309, 383, 392, 395, 480}
    THEN "IDLE_CONFIRMED"
    ELSE "NONE"

TypeOK ==
    /\ pc \in {"validate", "find_roles", "generate_name", "active_hours",
               "cpu_gate", "cpu_sample", "sessions_get", "sessions_scan",
               "idle_time", "idle_check", "connections", "kernels_get",
               "kernels_scan", "get_name", "stop_validate", "stop_call", "done"}
    /\ exit_code \in {{}, {0}, {1}}
    /\ (pc = "done") = (exit_code # {})
    /\ Len(stop_requests) <= 1

\* ------------------------------------ is_within_active_hours on its own
\* the windows of a run, and office hours
ScheduleWindows == Windows \cup {<<9, 0, 17, 0>>}

ScheduleArgsSet ==
    {a \in [name               : {NoName},
            time               : {MaxIdleTime},
            ignore_connections : {FALSE},
            start              : {w[1] : w \in ScheduleWindows},
            start_min          : {w[2] : w \in ScheduleWindows},
            end                : {w[3] : w \in ScheduleWindows},
            end_min            : {w[4] : w \in ScheduleWindows},
            active_days        : {DefaultActiveDays, {"6", "7"}},
            cpu_threshold      : {{}},
            cpu_check_duration : {0}] :
        <<a.start, a.start_min, a.end, a.end_min>> \in ScheduleWindows}

\* every weekday and every minute of the day
InitSchedule ==
    /\ pc = "schedule_probe"
    /\ args \in ScheduleArgsSet
    /\ now \in [day : 1..7, hour : 0..23, minute : 0..59]
    /\ exit_code = {}
    /\ exit_line = 0
    /\ active_hours_result = {}
    /\ validate_log = <<>>
    /\ cpu_usage_samples = <<>>
    /\ cpu_samples_taken = 0
    /\ sessions_queries = 0
    /\ kernels_queries = 0
    /\ response = NoResponse
    /\ last_activity = {}
    /\ idle_time = {}
    /\ name_sources = {}
    /\ notebook_instance_name = "<unbound>"
    /\ stop_requests = <<>>

\* is_within_active_hours(args) at the clock reading now
ScheduleProbe ==
    /\ pc = "schedule_probe"
    /\ active_hours_result' =
          {is_within_active_hours(args, now.day, now.hour, now.minute)}
    /\ pc' = "schedule_done"
    /\ UNCHANGED <<now, args, exit_code, exit_line, validate_log,
                   cpu_usage_samples, cpu_samples_taken, sessions_queries,
                   kernels_queries, response, last_activity, idle_time,
                   name_sources, notebook_instance_name, stop_requests>>

NextSchedule == ScheduleProbe

SpecSchedule == InitSchedule /\ [][NextSchedule]_vars

\* ----------------------- a run on a Saturday morning, office hours set
\* --start 9 --end 17, active days at their default (Monday to Friday)
ScenarioArgsSet ==
    [name               : {NoName, "explicit-name"},
     time               : 1..MaxIdleTime,
     ignore_connections : BOOLEAN,
     start              : {9},
     start_min          : {0},
     end                : {17},
     end_min            : {0},
     active_days        : {DefaultActiveDays},
     cpu_threshold      : {{}} \cup {{t} : t \in 0..MaxCpu},
     cpu_check_duration : Durations]

InitScenario ==
    /\ pc = "validate"
    /\ args \in ScenarioArgsSet
    /\ exit_code = {}
    /\ exit_line = 0
    /\ now = NoClock
    /\ active_hours_result = {}
    /\ validate_log = <<>>
    /\ cpu_usage_samples = <<>>
    /\ cpu_samples_taken = 0
    /\ sessions_queries = 0
    /\ kernels_queries = 0
    /\ response = NoResponse
    /\ last_activity = {}
    /\ idle_time = {}
    /\ name_sources = {}
    /\ notebook_instance_name = "<unbound>"
    /\ stop_requests = <<>>

\* main: the active hours gate on Saturday (isoweekday 6) at 10:00
ActiveHoursSaturday == ActiveHoursAt(6, 10, 0)

NextScenario ==
    \/ MainValidate
    \/ FindRoles
    \/ GenerateName
    \/ ActiveHoursSaturday
    \/ CpuGate
    \/ CpuSample
    \/ CpuAverage
    \/ SessionsGet
    \/ SessionsScan
    \/ ComputeIdleTime
    \/ IdleCheck
    \/ ConnectionGate
    \/ KernelsGet
    \/ KernelsScan
    \/ GetNotebookName
    \/ StopValidate
    \/ StopCall

SpecScenario == InitScenario /\ [][NextScenario]_vars

\* ================================================================ claims

\* C1: whenever is_within_active_hours returned True, the run has ended with
\* verdict SKIP_ACTIVE_WINDOW and exit status 0: no stop request was issued,
\* no CPU sample was taken and neither /api/sessions nor /api/kernels was
\* queried.
C1_ActiveWindowSkips ==
    TRUE \in active_hours_result =>
        /\ pc = "done"
        /\ Verdict = "SKIP_ACTIVE_WINDOW"
        /\ exit_code = {0}
        /\ stop_requests = <<>>
        /\ cpu_samples_taken = 0
        /\ sessions_queries = 0
        /\ kernels_queries = 0

\* a run that ended inside the active window
C1_Witness ==
    /\ TRUE \in active_hours_result
    /\ pc = "done"
    /\ exit_line = 448

\* C2: a stop request is issued only after every validate_aws_profile call
\* of the run, the one inside stop_notebook_instance included, returned True;
\* once a validation has returned False the run has ended with exit status 1,
\* has issued no stop request, and has not validated again.
C2_StopOnlyAfterValidation ==
    /\ stop_requests # <<>> =>
          /\ Len(validate_log) = 2
          /\ \A i \in 1..Len(validate_log) : validate_log[i]
    /\ \A i \in 1..Len(validate_log) :
          ~validate_log[i] =>
              /\ i = Len(validate_log)
              /\ pc = "done"
              /\ exit_code = {1}
              /\ stop_requests = <<>>

\* a stop request that went out after both validations succeeded
C2_Witness ==
    /\ Len(stop_requests) = 1
    /\ validate_log = <<TRUE, TRUE>>

\* C3: a run sends at most one stop request; if that request failed
\* (ClientError or any other exception) the run has ended with exit status 1
\* without a second request.
C3_AtMostOneStop ==
    /\ Len(stop_requests) <= 1
    /\ \A i \in 1..Len(stop_requests) :
          stop_requests[i].outcome # "ok" =>
              /\ pc = "done"
              /\ exit_code = {1}

\* a run whose only stop request failed with a ClientError
C3_Witness ==
    /\ Len(stop_requests) = 1
    /\ stop_requests[1].outcome = "client_error"
    /\ exit_line = 392

\* a query that failed: no answer (unreachable, timeout), an HTTP error
\* status, or a body that is not JSON
QueryFailed(r) == ~r.reach \/ r.status >= 400 \/ r.kind = "invalid"

\* C4: when the /api/sessions or the /api/kernels query failed, the step
\* that handles the response ends the run with exit status 1 and without a
\* stop request; the failure is never turned into a verdict.
C4_FailedQueryAborts ==
    [][(pc \in {"sessions_scan", "kernels_scan"} /\ QueryFailed(response)) =>
          /\ pc' = "done"
          /\ exit_code' = {1}
          /\ stop_requests' = <<>>]_vars

\* C5: once idle_time has been compared with the threshold: for every
\* idle_time <= args.time, equality included, the verdict is NOT_IDLE_ACTIVITY
\* and nothing is stopped; for every idle_time > args.time the verdict is
\* never NOT_IDLE_ACTIVITY, and it is IDLE_CONFIRMED (main enters its stop
\* branch) as soon as the connection gate has passed.
C5_IdleThresholdBoundary ==
    \A t \in idle_time :
        pc # "idle_check" =>
            /\ t <= args.time =>
                  /\ Verdict = "NOT_IDLE_ACTIVITY"
                  /\ exit_code = {0}
                  /\ stop_requests = <<>>
            /\ t > args.time =>
                  \/ pc \in {"connections", "kernels_get", "kernels_scan"}
                  \/ exit_line \in {360, 482}
                  \/ Verdict = "IDLE_CONFIRMED"

\* a run whose idle_time was exactly the threshold
C5_Witness ==
    /\ idle_time = {args.time}
    /\ last_activity # {}
    /\ Verdict = "NOT_IDLE_ACTIVITY"

\* some kernel of the listing reports a positive connection count
SomeConnection(body) ==
    \E i \in 1..Len(body) :
        "connections" \in DOMAIN body[i] /\ body[i].connections > 0

\* C6: at the connection gate (schedule, CPU and activity gates passed):
\* with --ignore-connections the verdict is IDLE_CONFIRMED and the
\* connections are not even queried; without it, a kernel listing with some
\* positive connection count gives NOT_IDLE_CONNECTIONS and no stop, and a
\* listing where all counts are 0 gives IDLE_CONFIRMED.
C6_ConnectionGate ==
    [][/\ (pc = "connections" /\ args.ignore_connections) =>
              /\ Verdict' = "IDLE_CONFIRMED"
              /\ kernels_queries' = 0
       /\ (pc = "connections" /\ ~args.ignore_connections) =>
              /\ Verdict' = "NONE"
              /\ pc' = "kernels_get"
       /\ (/\ pc = "kernels_scan"
           /\ ~QueryFailed(response)
           /\ response.kind = "list") =>
              IF SomeConnection(response.body)
              THEN /\ Verdict' = "NOT_IDLE_CONNECTIONS"
                   /\ exit_code' = {0}
                   /\ stop_requests' = <<>>
              ELSE Verdict' = "IDLE_CONFIRMED"]_vars

\* a run that passed the connection gate on --ignore-connections alone
C6_Witness ==
    /\ args.ignore_connections
    /\ Verdict = "IDLE_CONFIRMED"
    /\ kernels_queries = 0
    /\ Len(stop_requests) = 1

\* no session of the listing carries kernel.last_activity
NoTimestamp(body) ==
    \A i \in 1..Len(body) :
        ~("kernel" \in DOMAIN body[i] /\ "last_activity" \in DOMAIN body[i].kernel)

\* C7: when the /api/sessions query succeeds and no session carries
\* kernel.last_activity (an empty listing included), last_activity is None;
\* with last_activity None idle_time becomes args.time + 1 and the activity
\* gate passes to the connection gate, never giving NOT_IDLE_ACTIVITY;
\* a failed query ends the run with exit status 1 instead.
C7_NoActivityIsIdle ==
    [][/\ (/\ pc = "sessions_scan"
           /\ ~QueryFailed(response)
           /\ NoTimestamp(response.body)) =>
              /\ pc' = "idle_time"
              /\ last_activity' = {}
       /\ (pc = "sessions_scan" /\ QueryFailed(response)) =>
              /\ pc' = "done"
              /\ exit_code' = {1}
       /\ (pc = "idle_time" /\ last_activity = {}) =>
              idle_time' = {args.time + 1}
       /\ (pc = "idle_check" /\ last_activity = {}) =>
              /\ pc' = "connections"
              /\ Verdict' # "NOT_IDLE_ACTIVITY"]_vars

\* a run with no last activity that reached the connection gate
C7_Witness ==
    /\ pc = "connections"
    /\ last_activity = {}
    /\ idle_time = {args.time + 1}

\* C8: outside the active window, with a CPU threshold set: when the
\* sampling loop is over and the mean of the samples is >= the threshold the
\* verdict is NOT_IDLE_CPU, the run ends with no stop request and without
\* querying sessions or kernels; when the mean is < the threshold the run
\* goes on to the session query. With no CPU threshold no sample is ever
\* taken and the run goes from the CPU gate straight to the session query.
C8_CpuGate ==
    [][/\ (pc = "cpu_sample" /\ pc' # "cpu_sample") =>
              \A threshold \in args.cpu_threshold :
                  IF SumSeq(cpu_usage_samples) >= threshold * Len(cpu_usage_samples)
                  THEN /\ Verdict' = "NOT_IDLE_CPU"
                       /\ pc' = "done"
                       /\ exit_code' = {0}
                       /\ stop_requests' = <<>>
                       /\ sessions_queries' = 0
                       /\ kernels_queries' = 0
                  ELSE pc' = "sessions_get"
       /\ (pc = "cpu_gate" /\ args.cpu_threshold = {}) =>
              pc' = "sessions_get"
       /\ (pc = "cpu_gate" /\ args.cpu_threshold # {}) =>
              pc' = "cpu_sample"
       /\ args.cpu_threshold = {} => cpu_samples_taken' = 0]_vars

\* a run that ended on a busy CPU
C8_Witness ==
    /\ Verdict = "NOT_IDLE_CPU"
    /\ cpu_samples_taken > 0
    /\ FALSE \in active_hours_result

\* the name the sources give in the order: explicit --name, metadata file,
\* instance tag, hostname
FirstSuccessfulName(a, src) ==
    IF a.name = "explicit-name" THEN "explicit-name"
    ELSE IF src.file = "ok" THEN "metadata-name"
    ELSE IF src.tag = "ok" THEN "tag-name"
    ELSE "host-name"

\* C9: the name of every stop request is that of the first successful
\* source in the order explicit --name, metadata file, instance tag,
\* hostname (the hostname being available).
C9_NameResolutionOrder ==
    \A src \in name_sources :
        \A i \in 1..Len(stop_requests) :
            src.hostname = "ok" =>
                stop_requests[i].name = FirstSuccessfulName(args, src)

\* C10 as stated: a stop request is authorised only by two consecutive
\* IDLE_CONFIRMED evaluations, so that no stop request goes out before the
\* sessions have been queried in two evaluations.
C10_DoubleConfirmation ==
    stop_requests # <<>> => sessions_queries >= 2

\* C10 as amended: a run evaluates idleness once; a stop request goes out
\* only when that single evaluation gave IDLE_CONFIRMED (idle_time above the
\* threshold), with no second evaluation in between, and never after a
\* non-idle verdict.
C10_SingleConfirmation ==
    /\ sessions_queries <= 1
    /\ kernels_queries <= 1
    /\ stop_requests # <<>> =>
          /\ Verdict = "IDLE_CONFIRMED"
          /\ sessions_queries = 1
          /\ idle_time # {}
          /\ \A t \in idle_time : t > args.time
    /\ Verdict \in {"SKIP_ACTIVE_WINDOW", "NOT_IDLE_CPU", "NOT_IDLE_ACTIVITY",
                    "NOT_IDLE_CONNECTIONS"} =>
          stop_requests = <<>>

\* a stop request acknowledged after one evaluation
C10_Witness ==
    /\ Len(stop_requests) = 1
    /\ stop_requests[1].outcome = "ok"
    /\ sessions_queries = 1
    /\ exit_line = 480

\* C11: a run is one evaluation: the active hours gate is entered once, from
\* the start of main; at most one sampling window, one /api/sessions query
\* and one /api/kernels query take place; a verdict once reached does not
\* change. After IDLE_CONFIRMED the run goes straight through the stop
\* (name, validation, request) and ends; a run that ends with exit status 0
\* on IDLE_CONFIRMED has sent its stop request. A run that ends on any
\* other verdict ends with exit status 0 and without a stop request.
C11_SingleShot ==
    [][/\ pc' = "active_hours" => pc = "generate_name"
       /\ Verdict # "NONE" => Verdict' = Verdict
       /\ cpu_samples_taken' * interval <= Max(interval, args.cpu_check_duration)
       /\ sessions_queries' <= 1
       /\ kernels_queries' <= 1
       /\ Verdict = "IDLE_CONFIRMED" =>
              /\ pc' \in {"stop_validate", "stop_call", "done"}
              /\ sessions_queries' = sessions_queries
              /\ kernels_queries' = kernels_queries
              /\ cpu_samples_taken' = cpu_samples_taken
       /\ (/\ pc' = "done"
           /\ Verdict' = "IDLE_CONFIRMED"
           /\ exit_code' = {0}) =>
              /\ Len(stop_requests') = 1
              /\ stop_requests'[1].outcome = "ok"
       /\ (/\ pc' = "done"
           /\ Verdict' \in {"SKIP_ACTIVE_WINDOW", "NOT_IDLE_CPU",
                            "NOT_IDLE_ACTIVITY", "NOT_IDLE_CONNECTIONS"}) =>
              /\ exit_code' = {0}
              /\ stop_requests' = <<>>]_vars

\* a run that ended on open connections, after one query of each kind
C11_Witness ==
    /\ pc = "done"
    /\ Verdict = "NOT_IDLE_CONNECTIONS"
    /\ exit_code = {0}
    /\ sessions_queries = 1
    /\ kernels_queries = 1
    /\ stop_requests = <<>>

\* C12: for every weekday d in 1..7 and minute of the day m in 0..1439,
\* is_within_active_hours returns True exactly when d is one of the active
\* days and start <= m < end (in minutes of the day); m = end is not active,
\* and with start >= end it returns False for every d and m.
C12_HalfOpenWindow ==
    pc = "schedule_done" =>
        LET m == now.hour * 60 + now.minute
            startMinuteOfDay == args.start * 60 + args.start_min
            endMinuteOfDay == args.end * 60 + args.end_min
        IN  /\ active_hours_result =
                  {/\ ToString(now.day) \in args.active_days
                   /\ m \in startMinuteOfDay..(endMinuteOfDay - 1)}
            /\ m = endMinuteOfDay => active_hours_result = {FALSE}
            /\ startMinuteOfDay >= endMinuteOfDay => active_hours_result = {FALSE}

\* an active day, probed at the end minute of a window that is not empty
C12_Witness ==
    /\ pc = "schedule_done"
    /\ ToString(now.day) \in args.active_days
    /\ args.start * 60 + args.start_min < args.end * 60 + args.end_min
    /\ now.hour * 60 + now.minute = args.end * 60 + args.end_min
    /\ active_hours_result = {FALSE}

\* C13 as stated: with the window 09:00-17:00 on Monday to Friday and the
\* clock at Saturday 10:00, the active hours gate gives SKIP_ACTIVE_WINDOW:
\* the run ends there, without a query and without a stop request.
C13_SaturdaySkips ==
    active_hours_result # {} =>
        /\ Verdict = "SKIP_ACTIVE_WINDOW"
        /\ pc = "done"
        /\ sessions_queries = 0
        /\ kernels_queries = 0
        /\ stop_requests = <<>>

\* C13 as amended: with the window 09:00-17:00 on Monday to Friday and the
\* clock at Saturday 10:00, is_within_active_hours returns False, the verdict
\* is never SKIP_ACTIVE_WINDOW, and the run goes on from the active hours
\* gate to the CPU gate: the verdict is that of the CPU, activity and
\* connection data.
C13_SaturdayIsEvaluated ==
    [][/\ active_hours_result' \subseteq {FALSE}
       /\ Verdict' # "SKIP_ACTIVE_WINDOW"
       /\ pc = "active_hours" => pc' = "cpu_gate"
       /\ (pc' = "done" /\ active_hours_result' # {}) =>
              Verdict' \in {"NOT_IDLE_CPU", "NOT_IDLE_ACTIVITY",
                            "NOT_IDLE_CONNECTIONS", "IDLE_CONFIRMED"}
              \/ exit_line' \in {343, 360}]_vars

\* a Saturday morning run that ended with a stop request
C13_Witness ==
    /\ active_hours_result = {FALSE}
    /\ args.start = 9
    /\ args.end = 17
    /\ Verdict = "IDLE_CONFIRMED"
    /\ Len(stop_requests) = 1

\* C14 as stated: when the sampling loop of is_cpu_idle is over, the number
\* n of measurements is ceil(duration / interval), at least 1, all of them
\* taken in this loop, and the run goes on exactly when their mean is below
\* the threshold.
C14_CeilSamples ==
    [][(pc = "cpu_sample" /\ pc' # "cpu_sample") =>
          LET n == Len(cpu_usage_samples)
              duration == args.cpu_check_duration
          IN  /\ n >= 1
              /\ n = 1 \/ (n - 1) * interval < duration
              /\ duration <= n * interval
              /\ cpu_samples_taken = n
              /\ \A threshold \in args.cpu_threshold :
                    (pc' = "sessions_get")
                        = (SumSeq(cpu_usage_samples) < threshold * n)]_vars

\* C14 as amended: when the sampling loop of is_cpu_idle is over, the number
\* n of measurements is floor(duration / interval), at least 1, all of them
\* taken in this loop, and the run goes on exactly when their mean is below
\* the threshold.
C14_FloorSamples ==
    [][(pc = "cpu_sample" /\ pc' # "cpu_sample") =>
          LET n == Len(cpu_usage_samples)
              duration == args.cpu_check_duration
          IN  /\ n >= 1
              /\ n = 1 \/ n * interval <= duration
              /\ duration < (n + 1) * interval
              /\ cpu_samples_taken = n
              /\ \A threshold \in args.cpu_threshold :
                    (pc' = "sessions_get")
                        = (SumSeq(cpu_usage_samples) < threshold * n)]_vars

\* a run whose duration of one interval and a bit was sampled once, and
\* whose CPU was found idle
C14_Witness ==
    /\ args.cpu_check_duration = interval + 2
    /\ args.cpu_threshold # {}
    /\ cpu_samples_taken = 1
    /\ pc = "sessions_get"

\* C15: every stop request sent to the SageMaker client names a resolved
\* resource, never None.
C15_StopNameDefined ==
    \A i \in 1..Len(stop_requests) : stop_requests[i].name # NoName

====
